---- MODULE Spec2Model ----
(***************************************************************************)
(* A model of ns3::PairValue<A,B> and its PairChecker                      *)
(* (src/core/model/pair.h).                                                *)
(*                                                                         *)
(* Text is a sequence of one-character strings.  A component value is a    *)
(* record [cls, int, str]: its concrete class and its semantic value (a    *)
(* number for the integer classes, a text for the string class).  Ptr<T>   *)
(* is an address into a heap of reference-counted cells; 0 is the null     *)
(* pointer.                                                                *)
(*                                                                         *)
(* A model of ns3::HierarchicalMobilityModel                               *)
(* (src/mobility/model/hierarchical-mobility-model.cc) follows it: the     *)
(* model's child and parent, the positions of the leaf models it is        *)
(* composed of, and the callbacks connected to their CourseChange sources. *)
(***************************************************************************)
EXTENDS Integers, Sequences, FiniteSets, TLC

\* ------------------------------------------------------------------ bounds
MaxLen == 3         \* longest text handed to DeserializeFromString
MaxInt == 1         \* largest integer handed to Set / the import constructor
MaxStrLen == 1      \* longest string handed to Set / the import constructor
HeapSize == 8       \* cells of the heap of component values
MaxMade == 3        \* MakePairChecker calls followed
MaxCoord == 1       \* largest coordinate of a position handed to a mobility model
MaxStream == 1      \* largest first stream index handed to AssignStreams

\* ------------------------------------------------------------------- text
Chars == {" ", "\f", "1", "a"}

\* The vertical tab (0x0b), written as the character itself: TLA+ has no
\* escape for it.
VerticalTab == ""

\* std::isspace in the "C" locale, the separator class of operator>>: space,
\* horizontal tab, line feed, vertical tab, form feed and carriage return.
IsSpace(c) == c \in {" ", "\t", "\n", VerticalTab, "\f", "\r"}

Digits == <<"0", "1", "2", "3", "4", "5", "6", "7", "8", "9">>

IsDigit(c) == \E d \in 1..10 : Digits[d] = c

DigitVal(c) == (CHOOSE d \in 1..10 : Digits[d] = c) - 1

TextsUpTo(n) == UNION {[1..k -> Chars] : k \in 0..n}

Texts == TextsUpTo(MaxLen)

HasSpace(t) == \E k \in 1..Len(t) : IsSpace(t[k])

\* The input stream of std::istringstream iss(value): the buffer, the read
\* position (1-based) and good() (neither eofbit nor failbit set).
NewStream(t) == [buf |-> t, pos |-> 1, good |-> TRUE]

RECURSIVE SkipWs(_, _)
SkipWs(buf, pos) ==
    IF pos > Len(buf) THEN pos
    ELSE IF IsSpace(buf[pos]) THEN SkipWs(buf, pos + 1)
    ELSE pos

RECURSIVE TokenEnd(_, _)
TokenEnd(buf, pos) ==
    IF pos > Len(buf) THEN pos
    ELSE IF IsSpace(buf[pos]) THEN pos
    ELSE TokenEnd(buf, pos + 1)

\* iss >> value.  The sentry fails when the stream is not good() or when only
\* whitespace is left (failbit and eofbit are set); value is then left as it
\* was.  Otherwise value is erased and receives the next run of non-space
\* characters; reading up to the end of the buffer sets eofbit.
Extract(iss, value) ==
    IF ~iss.good
    THEN [iss |-> iss, value |-> value]
    ELSE LET s == SkipWs(iss.buf, iss.pos) IN
         IF s > Len(iss.buf)
         THEN [iss |-> [iss EXCEPT !.pos = s, !.good = FALSE], value |-> value]
         ELSE LET e == TokenEnd(iss.buf, s) IN
              [iss |-> [iss EXCEPT !.pos = e, !.good = (e <= Len(iss.buf))],
               value |-> SubSeq(iss.buf, s, e - 1)]

\* The whitespace-delimited tokens of a text, in order.
RECURSIVE TokensFrom(_, _)
TokensFrom(t, pos) ==
    LET s == SkipWs(t, pos) IN
    IF s > Len(t) THEN <<>>
    ELSE LET e == TokenEnd(t, s) IN <<SubSeq(t, s, e - 1)>> \o TokensFrom(t, e)

Tokens(t) == TokensFrom(t, 1)

\* ------------------------------------------------------- component values
\* The component classes: an integer value class, a class derived from it,
\* and a string value class.
Classes == {"Int", "SubInt", "Str"}

\* The template arguments a PairValue<A,B> is instantiated with here.
TParams == {"Int", "Str"}

\* dynamic_cast<T*>: the object's class is T or derives from T.
IsA(cls, T) == cls = T \/ (cls = "SubInt" /\ T = "Int")

IntClass(cls) == cls \in {"Int", "SubInt"}

MkInt(cls, n) == [cls |-> cls, int |-> n, str |-> <<>>]

MkStr(s) == [cls |-> "Str", int |-> 0, str |-> s]

NoValue == [cls |-> "null", int |-> 0, str |-> <<>>]

\* A semantic value: what A::Get() returns and Create<A>(v) takes.
Sem(v) == [int |-> v.int, str |-> v.str]

\* The semantic values handed to Set and to the import constructor.
SemVals(cls) ==
    IF IntClass(cls)
    THEN {[int |-> n, str |-> <<>>] : n \in 0..MaxInt}
    ELSE {[int |-> 0, str |-> s] : s \in TextsUpTo(MaxStrLen)}

\* Create<A>(v): a component of class A holding v.
CreateFrom(cls, v) == [cls |-> cls, int |-> v.int, str |-> v.str]

\* Create<A>(): the default-constructed component.
CreateDefault(cls) == IF IntClass(cls) THEN MkInt(cls, 0) ELSE MkStr(<<>>)

RECURSIVE ToDigits(_)
ToDigits(n) ==
    IF n < 10 THEN <<Digits[n + 1]>>
    ELSE ToDigits(n \div 10) \o <<Digits[(n % 10) + 1]>>

RECURSIVE ParseInt(_)
ParseInt(t) ==
    IF Len(t) = 0 THEN 0
    ELSE 10 * ParseInt(SubSeq(t, 1, Len(t) - 1)) + DigitVal(t[Len(t)])

AllDigits(t) == Len(t) > 0 /\ \A k \in 1..Len(t) : IsDigit(t[k])

\* A component's SerializeToString: decimal digits, or the string itself.
ComponentSerialize(v) == IF IntClass(v.cls) THEN ToDigits(v.int) ELSE v.str

\* The component checkers: one per class; "null" is the unset Ptr.
ComponentCheckers == {"null", "IntChk", "SubIntChk", "StrChk"}

CheckerClass(ck) ==
    IF ck = "IntChk" THEN "Int" ELSE IF ck = "SubIntChk" THEN "SubInt" ELSE "Str"

CheckerFor(cls) ==
    IF cls = "Int" THEN "IntChk" ELSE IF cls = "SubInt" THEN "SubIntChk" ELSE "StrChk"

\* AttributeChecker::CreateValidValue(StringValue(token)): the value the
\* checker makes of the token, or NoValue (a null Ptr) when it rejects it.
CreateValidValue(ck, token) ==
    IF ck = "StrChk" THEN MkStr(token)
    ELSE IF AllDigits(token) THEN MkInt(CheckerClass(ck), ParseInt(token))
    ELSE NoValue

\* ----------------------------------------------------------- pair checker
\* A Ptr<const AttributeChecker>: null, a checker of another kind, or an
\* internal::PairChecker<A,B> with its two component checkers.
NullChecker == [kind |-> "null", A |-> "", B |-> "", first |-> "null", second |-> "null"]

OtherChecker == [kind |-> "other", A |-> "", B |-> "", first |-> "null", second |-> "null"]

\* internal::PairChecker<A,B>::PairChecker(): both component checkers unset.
PairCheckerNew(A, B) ==
    [kind |-> "pair", A |-> A, B |-> B, first |-> "null", second |-> "null"]

SetCheckers(c, firstchecker, secondchecker) ==
    [c EXCEPT !.first = firstchecker, !.second = secondchecker]

GetCheckers(c) == [first |-> c.first, second |-> c.second]

\* typeid(Ptr<T>).name(): the mangled name of the type.
TypeidName(cls) ==
    IF cls = "Int"
    THEN <<"N","3","n","s","3","3","P","t","r","I","N","S","_","1","2",
           "I","n","t","e","g","e","r","V","a","l","u","e","E","E","E">>
    ELSE IF cls = "Str"
    THEN <<"N","3","n","s","3","3","P","t","r","I","N","S","_","1","1",
           "S","t","r","i","n","g","V","a","l","u","e","E","E","E">>
    ELSE <<"N","3","n","s","3","3","P","t","r","I","N","S","_","1","5",
           "S","u","b","I","n","t","e","g","e","r","V","a","l","u","e","E","E","E">>

PairNamePrefix ==
    <<"n","s","3",":",":","P","a","i","r","V","a","l","u","e","<">>

\* A name built from the first type's name twice.
PairNameFirstTwice(A, B) ==
    LET first_type_name == TypeidName(A)
        second_type_name == TypeidName(A)
    IN PairNamePrefix \o first_type_name \o <<",", " ">> \o second_type_name \o <<">">>

\* The name MakePairChecker<A,B>() gives the checker.
PairName(A, B) ==
    LET first_type_name == TypeidName(A)
        second_type_name == TypeidName(B)
    IN PairNamePrefix \o first_type_name \o <<",", " ">> \o second_type_name \o <<">">>

\* MakePairChecker<A,B>()
MakePairChecker(A, B) == PairCheckerNew(A, B)

\* MakePairChecker<A,B>(firstchecker, secondchecker)
MakePairCheckerWith(A, B, firstchecker, secondchecker) ==
    SetCheckers(MakePairChecker(A, B), firstchecker, secondchecker)

\* DynamicCast<const PairChecker>(checker) is not null.
IsPairChecker(c) == c.kind = "pair"

\* -------------------------------------------------------------------- heap
FreeCell == NoValue

EmptyHeap == [a \in 1..HeapSize |-> FreeCell]

FreeAddrs(h) == {a \in 1..HeapSize : h[a] = FreeCell}

\* The address operator new returns: the lowest free cell.
LowestFree(h) == CHOOSE a \in FreeAddrs(h) : \A b \in FreeAddrs(h) : a <= b

\* Create<T>(...): a new cell holding v.
Alloc(h, v) ==
    LET a == LowestFree(h) IN [heap |-> [h EXCEPT ![a] = v], ref |-> a]

\* Ptr<T>::operator*: the cell a non-null Ptr refers to.
Deref(h, r) == IF r = 0 THEN NoValue ELSE h[r]

\* The Ptr reference counts: a cell no live PairValue refers to is deleted.
Release(h, os) ==
    [a \in 1..HeapSize |->
        IF \E i \in DOMAIN os : os[i].live /\ (os[i].first = a \/ os[i].second = a)
        THEN h[a] ELSE FreeCell]

\* -------------------------------------------------------------- PairValue
\* m_value of a PairValue<A,B>: a std::pair<Ptr<A>, Ptr<B>>.  live is FALSE
\* for a handle that refers to no PairValue.
NoObj == [live |-> FALSE, first |-> 0, second |-> 0]

MValue(f, s) == [live |-> TRUE, first |-> f, second |-> s]

\* DynamicCast<T>(p): p itself when it refers to a T, else the null Ptr.
DynamicCastOk(v, T) == v # NoValue /\ IsA(v.cls, T)

\* std::make_pair(Create<A>(v1), Create<B>(v2)) on heap h.
NewPair(h, v1, v2) ==
    LET a1 == Alloc(h, v1)
        a2 == Alloc(a1.heap, v2)
    IN [heap |-> a2.heap, mv |-> MValue(a1.ref, a2.ref)]

\* A default constructor that leaves m_value empty.
PairDefaultEmpty(h, A, B) == [heap |-> h, mv |-> MValue(0, 0)]

\* PairValue(): both components default-constructed.
PairDefault(h, A, B) == NewPair(h, CreateDefault(A), CreateDefault(B))

\* PairValue::Set(value), also the body of PairValue(value).
PairSet(h, A, B, x, y) == NewPair(h, CreateFrom(A, x), CreateFrom(B, y))

\* PairValue::Get(), for an m_value with both components present.
PairGet(h, o) == <<Sem(Deref(h, o.first)), Sem(Deref(h, o.second))>>

\* The two component objects of a handle (NoValue for a null Ptr).
Content(h, o) == <<Deref(h, o.first), Deref(h, o.second)>>

\* A Copy that hands out the Ptrs it holds instead of copies of the components.
PairCopyShallow(h, o, A, B) ==
    IF o.first # 0
    THEN [ret |-> "ok", heap |-> h, mv |-> MValue(o.first, o.second)]
    ELSE LET p == PairDefault(h, A, B) IN [ret |-> "ok", heap |-> p.heap, mv |-> p.mv]

\* A Copy that casts the copy of the first component to B.
PairCopyMiscast(h, o, A, B) ==
    LET p == PairDefault(h, A, B) IN
    IF o.first # 0
    THEN IF o.second = 0
         THEN [ret |-> "crash", heap |-> h, mv |-> NoObj]
         ELSE LET c1 == Alloc(p.heap, Deref(h, o.first))
                  c2 == Alloc(c1.heap, Deref(h, o.second))
                  f == IF DynamicCastOk(Deref(h, o.first), B) THEN c1.ref ELSE 0
                  s == IF DynamicCastOk(Deref(h, o.second), B) THEN c2.ref ELSE 0
              IN [ret |-> "ok", heap |-> c2.heap, mv |-> MValue(f, s)]
    ELSE [ret |-> "ok", heap |-> p.heap, mv |-> p.mv]

\* PairValue::Copy().  ret is "crash" when a null Ptr is dereferenced.
PairCopy(h, o, A, B) ==
    LET p == PairDefault(h, A, B) IN
    IF o.first # 0
    THEN IF o.second = 0
         THEN [ret |-> "crash", heap |-> h, mv |-> NoObj]
         ELSE LET c1 == Alloc(p.heap, Deref(h, o.first))
                  c2 == Alloc(c1.heap, Deref(h, o.second))
                  f == IF DynamicCastOk(Deref(h, o.first), A) THEN c1.ref ELSE 0
                  s == IF DynamicCastOk(Deref(h, o.second), B) THEN c2.ref ELSE 0
              IN [ret |-> "ok", heap |-> c2.heap, mv |-> MValue(f, s)]
    ELSE [ret |-> "ok", heap |-> p.heap, mv |-> p.mv]

\* SerializeToString writing the pair the way operator<< separates it.
PairSerializeComma(h, o) ==
    IF o.first = 0 \/ o.second = 0
    THEN [ret |-> "crash", out |-> <<>>]
    ELSE [ret |-> "ok",
          out |-> ComponentSerialize(Deref(h, o.first)) \o <<",">>
                  \o ComponentSerialize(Deref(h, o.second))]

\* SerializeToString writing the second component first.
PairSerializeSwapped(h, o) ==
    IF o.first = 0 \/ o.second = 0
    THEN [ret |-> "crash", out |-> <<>>]
    ELSE [ret |-> "ok",
          out |-> ComponentSerialize(Deref(h, o.second)) \o <<" ">>
                  \o ComponentSerialize(Deref(h, o.first))]

\* PairValue::SerializeToString(checker).
PairSerialize(h, o) ==
    IF o.first = 0 \/ o.second = 0
    THEN [ret |-> "crash", out |-> <<>>]
    ELSE [ret |-> "ok",
          out |-> ComponentSerialize(Deref(h, o.first)) \o <<" ">>
                  \o ComponentSerialize(Deref(h, o.second))]

\* The outcome of PairValue::DeserializeFromString(text, checker): what it
\* returns ("crash" when it dereferences a null component checker), the
\* return statement it leaves by, and the values it has assigned to
\* m_value.first and m_value.second (NoValue: not assigned).
Outcome(ret, site, v1, v2) == [ret |-> ret, site |-> site, first |-> v1, second |-> v2]

\* Lines 349-363: the second token, its checker, its type, the assignment.
\* A failure after the first value was made, assigning it all the same.
DeserializeSecondEager(e1, checker, first, B) ==
    LET e2 == Extract(e1.iss, e1.value)
        secondchecker == GetCheckers(checker).second
    IN
    IF secondchecker = "null"
    THEN Outcome("crash", "secondchecker", NoValue, NoValue)
    ELSE
    LET second == CreateValidValue(secondchecker, e2.value) IN
    IF second = NoValue
    THEN Outcome("false", "second", first, NoValue)
    ELSE IF ~DynamicCastOk(second, B)
    THEN Outcome("false", "secondattr", first, NoValue)
    ELSE Outcome("true", "done", first, second)

DeserializeSecond(e1, checker, first, B) ==
    LET e2 == Extract(e1.iss, e1.value)
        secondchecker == GetCheckers(checker).second
    IN
    IF secondchecker = "null"
    THEN Outcome("crash", "secondchecker", NoValue, NoValue)
    ELSE
    LET second == CreateValidValue(secondchecker, e2.value) IN
    IF second = NoValue
    THEN Outcome("false", "second", NoValue, NoValue)
    ELSE IF ~DynamicCastOk(second, B)
    THEN Outcome("false", "secondattr", NoValue, NoValue)
    ELSE Outcome("true", "done", first, second)

PairDeserialize(text, checker, A, B) ==
    IF ~IsPairChecker(checker)
    THEN Outcome("false", "notpair", NoValue, NoValue)
    ELSE
    LET e1 == Extract(NewStream(text), text)
        firstchecker == GetCheckers(checker).first
    IN
    IF firstchecker = "null"
    THEN Outcome("crash", "firstchecker", NoValue, NoValue)
    ELSE
    LET first == CreateValidValue(firstchecker, e1.value) IN
    IF first = NoValue
    THEN Outcome("false", "first", NoValue, NoValue)
    ELSE IF ~DynamicCastOk(first, A)
    THEN Outcome("false", "firstattr", NoValue, NoValue)
    ELSE DeserializeSecond(e1, checker, first, B)

\* The assignment to m_value an outcome carries: a component the outcome names
\* is replaced by a new cell, a component it leaves NoValue is kept.
Install(h, o, d) ==
    LET a1 == IF d.first = NoValue THEN [heap |-> h, ref |-> o.first]
              ELSE Alloc(h, d.first)
        a2 == IF d.second = NoValue THEN [heap |-> a1.heap, ref |-> o.second]
              ELSE Alloc(a1.heap, d.second)
    IN [heap |-> a2.heap, mv |-> MValue(a1.ref, a2.ref)]

\* ------------------------------------------- HierarchicalMobilityModel
\* (src/mobility/model/hierarchical-mobility-model.cc)
\*
\* The mobility models a HierarchicalMobilityModel is composed of are leaf
\* models that keep a position, move at a fixed velocity and draw a fixed
\* number of random streams.  A Ptr<MobilityModel> is a model's name, or
\* NoModel for the null pointer.
Models == {"m1", "m2", "m3"}

NoModel == "null"

Vector(x, y, z) == [x |-> x, y |-> y, z |-> z]

ZeroVector == Vector(0, 0, 0)

Coords == 0..MaxCoord

Vectors == {Vector(x, y, z) : x \in Coords, y \in Coords, z \in Coords}

LeafVelocity(m) ==
    CASE m = "m1" -> Vector(0, 0, 0)
      [] m = "m2" -> Vector(1, 0, 0)
      [] OTHER    -> Vector(0, 1, 1)

LeafStreams(m) ==
    CASE m = "m1" -> 0
      [] m = "m2" -> 1
      [] OTHER    -> 2

\* A HierarchicalMobilityModel after its constructor, among leaf models at
\* the positions pos.  childCb[m] and parentCb[m] count the ChildChanged and
\* ParentChanged callbacks in the CourseChange list of model m.
NewHierarchical(pos) ==
    [m_child |-> NoModel, m_parent |-> NoModel, pos |-> pos,
     childCb |-> [m \in Models |-> 0], parentCb |-> [m \in Models |-> 0],
     inited |-> {}]

\* MobilityModel::GetPosition and GetPositionWithReference of a leaf model.
LeafGetPosition(w, m) == w.pos[m]

LeafGetPositionWithReference(w, m, ref) == w.pos[m]

\* MobilityModel::SetPosition of a leaf model: the position is stored and the
\* CourseChange trace is fired, which invokes every callback connected to it.
LeafSetPosition(w, m, v) ==
    [w |-> [w EXCEPT !.pos[m] = v], child |-> w.childCb[m], parent |-> w.parentCb[m]]

\* TraceConnectWithoutContext appends the callback; TraceDisconnectWithoutContext
\* removes every callback equal to it.
TraceConnect(cb, m) == [cb EXCEPT ![m] = @ + 1]

TraceDisconnect(cb, m) == [cb EXCEPT ![m] = 0]

\* Object::Initialize of a leaf model.
LeafInitialize(w, m) == [w EXCEPT !.inited = @ \cup {m}]

\* The result of a call: ret is "ok" or "crash" (a null Ptr was dereferenced),
\* val the Vector returned, num the number returned, child and parent the
\* ChildChanged and ParentChanged invocations the call caused.
Result(w, ret, val, child, parent) ==
    [w |-> w, ret |-> ret, val |-> val, num |-> 0, child |-> child, parent |-> parent]

\* The result of a call that returns a number, or nothing.
Count(w, ret, num) ==
    [w |-> w, ret |-> ret, val |-> ZeroVector, num |-> num, child |-> 0, parent |-> 0]

DoGetPosition(w) ==
    IF w.m_parent = NoModel
    THEN IF w.m_child = NoModel THEN Result(w, "crash", ZeroVector, 0, 0)
         ELSE Result(w, "ok", LeafGetPosition(w, w.m_child), 0, 0)
    ELSE LET parentPosition == LeafGetPosition(w, w.m_parent)
             childPosition == LeafGetPositionWithReference(w, w.m_child, parentPosition)
         IN IF w.m_child = NoModel THEN Result(w, "crash", ZeroVector, 0, 0)
            ELSE Result(w, "ok", Vector(parentPosition.x + childPosition.x,
                                        parentPosition.y + childPosition.y,
                                        parentPosition.z + childPosition.z), 0, 0)

DoSetPosition(w, position) ==
    IF w.m_child = NoModel THEN Result(w, "ok", position, 0, 0)
    ELSE LET parentPosition == LeafGetPosition(w, w.m_parent)
             childPosition == Vector(position.x - parentPosition.x,
                                     position.y - parentPosition.y,
                                     position.z - parentPosition.z)
             r == IF w.m_parent # NoModel
                  THEN LeafSetPosition(w, w.m_child, childPosition)
                  ELSE LeafSetPosition(w, w.m_child, position)
         IN Result(r.w, "ok", position, r.child, r.parent)

\* SetChild without the TraceDisconnectWithoutContext of the previous child.
SetChildKeepsCallback(w, model) ==
    LET oldChild == w.m_child
        pos == IF oldChild # NoModel THEN DoGetPosition(w).val ELSE ZeroVector
        w2 == [w EXCEPT !.m_child = model]
    IN IF model = NoModel THEN Result(w2, "crash", ZeroVector, 0, 0)
       ELSE LET w3 == [w2 EXCEPT !.childCb = TraceConnect(@, model)]
                r == IF oldChild # NoModel THEN DoSetPosition(w3, pos)
                     ELSE Result(w3, "ok", pos, 0, 0)
            IN Result(r.w, "ok", ZeroVector, r.child, r.parent)

SetChild(w, model) ==
    LET oldChild == w.m_child
        pos == IF oldChild # NoModel THEN DoGetPosition(w).val ELSE ZeroVector
        w1 == IF oldChild # NoModel
              THEN [w EXCEPT !.childCb = TraceDisconnect(@, oldChild)]
              ELSE w
        w2 == [w1 EXCEPT !.m_child = model]
    IN IF model = NoModel THEN Result(w2, "crash", ZeroVector, 0, 0)
       ELSE LET w3 == [w2 EXCEPT !.childCb = TraceConnect(@, model)]
                r == IF oldChild # NoModel THEN DoSetPosition(w3, pos)
                     ELSE Result(w3, "ok", pos, 0, 0)
            IN Result(r.w, "ok", ZeroVector, r.child, r.parent)

SetParent(w, model) ==
    LET pos == IF w.m_child # NoModel THEN DoGetPosition(w).val ELSE ZeroVector
        w1 == IF w.m_parent # NoModel
              THEN [w EXCEPT !.parentCb = TraceDisconnect(@, w.m_parent)]
              ELSE w
        w2 == [w1 EXCEPT !.m_parent = model]
        w3 == IF model # NoModel
              THEN [w2 EXCEPT !.parentCb = TraceConnect(@, model)]
              ELSE w2
        r == IF w3.m_child # NoModel THEN DoSetPosition(w3, pos)
             ELSE Result(w3, "ok", pos, 0, 0)
    IN Result(r.w, "ok", ZeroVector, r.child, r.parent)

DoGetVelocity(w) ==
    IF w.m_parent # NoModel
    THEN LET parentSpeed == LeafVelocity(w.m_parent)
             childSpeed == LeafVelocity(w.m_child)
         IN IF w.m_child = NoModel THEN Result(w, "crash", ZeroVector, 0, 0)
            ELSE Result(w, "ok", Vector(parentSpeed.x + childSpeed.x,
                                        parentSpeed.y + childSpeed.y,
                                        parentSpeed.z + childSpeed.z), 0, 0)
    ELSE IF w.m_child = NoModel THEN Result(w, "crash", ZeroVector, 0, 0)
         ELSE Result(w, "ok", LeafVelocity(w.m_child), 0, 0)

DoInitialize(w) ==
    LET w1 == IF w.m_parent # NoModel /\ w.m_parent \notin w.inited
              THEN LeafInitialize(w, w.m_parent)
              ELSE w
    IN IF w.m_child = NoModel THEN Count(w1, "crash", 0)
       ELSE Count(LeafInitialize(w1, w.m_child), "ok", 0)

\* MobilityModel::AssignStreams of a leaf model returns the number of streams
\* the model draws.
LeafAssignStreams(m, stream) == LeafStreams(m)

DoAssignStreams(w, stream) ==
    IF w.m_parent = NoModel THEN Count(w, "crash", 0)
    ELSE LET fromParent == LeafAssignStreams(w.m_parent, stream)
         IN IF w.m_child = NoModel THEN Count(w, "crash", fromParent)
            ELSE Count(w, "ok",
                       fromParent + LeafAssignStreams(w.m_child, stream + fromParent))

\* The CourseChange trace of leaf model m fires: every callback connected to
\* it runs, and each one calls NotifyCourseChange on the hierarchical model.
CourseChange(w, m) == Result(w, "ok", ZeroVector, w.childCb[m], w.parentCb[m])

\* ------------------------------------------------------------------ state
VARIABLES
    tparam,     \* the template arguments <<A, B>> of the PairValue class in use
    objs,       \* handle -> m_value of the PairValue it refers to
    heap,       \* address -> component value
    last,       \* the call just made: operation, handle, arguments, result
    crashed,    \* the process was ended by a null dereference
    copied,     \* history: the last Copy, and the handles written to since
    made,       \* history: the MakePairChecker calls, with the name each gave
    mob,        \* the HierarchicalMobilityModel and the leaf models around it
    mcall,      \* the call just made on a mobility model, and its result
    past        \* history: the models that were set as child or as parent

vars == <<tparam, objs, heap, last, crashed, copied, made, mob, mcall, past>>

A == tparam[1]

B == tparam[2]

\* The two PairValue handles of "c = p.Copy()".
Handles == {"p", "c"}

\* The components of every handle, as a call finds them.
Snapshot == [i \in Handles |-> Content(heap, objs[i])]

Call(op, i, text, chk, ret, site, out) ==
    [op |-> op, obj |-> i, text |-> text, chk |-> chk, ret |-> ret,
     site |-> site, out |-> out, pre |-> Snapshot]

\* No Copy was made yet, or both of its handles were written to since.
NoCopy == [valid |-> FALSE, src |-> "", dst |-> "",
           val |-> <<Sem(NoValue), Sem(NoValue)>>, touched |-> {}]

\* Handle i is written to by Set or DeserializeFromString.
Touch(i) ==
    IF ~copied.valid \/ i \notin {copied.src, copied.dst} THEN copied
    ELSE IF {copied.src, copied.dst} \subseteq copied.touched \cup {i} THEN NoCopy
    ELSE [copied EXCEPT !.touched = @ \cup {i}]

\* No call is under way: the caller has dropped the last result.
Idle ==
    [op |-> "idle", obj |-> "", text |-> <<>>, chk |-> NullChecker, ret |-> "ok",
     site |-> "", out |-> <<>>, pre |-> [i \in Handles |-> <<NoValue, NoValue>>]]

CanCall == ~crashed /\ last = Idle

\* The call just made on the HierarchicalMobilityModel (or, for CourseChange,
\* on leaf model `model`): its arguments, its result, and what went before:
\* had tells that the call found a child set, was what GetPosition() returned
\* then.
MCall(op, model, position, stream, r) ==
    [op |-> op, model |-> model, position |-> position, stream |-> stream,
     ret |-> r.ret, val |-> r.val, num |-> r.num, child |-> r.child,
     parent |-> r.parent, had |-> (mob.m_child # NoModel),
     was |-> DoGetPosition(mob).val]

\* No call on a mobility model is under way.
MIdle ==
    [op |-> "idle", model |-> NoModel, position |-> ZeroVector, stream |-> 0,
     ret |-> "ok", val |-> ZeroVector, num |-> 0, child |-> 0, parent |-> 0,
     had |-> FALSE, was |-> ZeroVector]

\* No mobility model is in use.
NoMobility ==
    /\ mob = NewHierarchical([m \in Models |-> ZeroVector])
    /\ mcall = MIdle
    /\ past = {}

\* No PairValue is in use.
NoPair ==
    /\ tparam = <<"Int", "Int">>
    /\ objs = [i \in Handles |-> NoObj]
    /\ heap = EmptyHeap
    /\ last = Idle
    /\ copied = NoCopy
    /\ made = <<>>

MCanCall == ~crashed /\ mcall = MIdle

\* The checkers handed to DeserializeFromString: a null Ptr, a checker that is
\* no PairChecker, and the PairChecker of <A,B> with every choice of component
\* checkers (none set, one set, both set).
CheckerInputs ==
    {NullChecker, OtherChecker, MakePairChecker(A, B)}
    \cup {MakePairCheckerWith(A, B, f, s) : f \in ComponentCheckers, s \in ComponentCheckers}

\* What SerializeToString returns for a PairValue<A,B> built from (x, y).
SerializedPair(x, y) ==
    LET r == PairSet(EmptyHeap, A, B, x, y) IN PairSerialize(r.heap, r.mv).out

\* The texts handed to DeserializeFromString: every text up to MaxLen, and
\* every text SerializeToString returns for a pair handed to Set.
TextInputs ==
    Texts \cup {SerializedPair(x, y) : x \in SemVals(A), y \in SemVals(B)}

\* The PairChecker an attribute of type PairValue<A,B> is registered with.
ProperChecker == MakePairCheckerWith(A, B, CheckerFor(A), CheckerFor(B))

\* ---------------------------------------------------------------- actions
\* Handle p after PairValue() or PairValue(value); handle c refers to nothing.
InitPair ==
    /\ NoMobility
    /\ tparam \in TParams \X TParams
    /\ crashed = FALSE
    /\ copied = NoCopy
    /\ made = <<>>
    /\ \/ /\ LET r == PairDefault(EmptyHeap, tparam[1], tparam[2]) IN
               /\ heap = r.heap
               /\ objs = [i \in Handles |-> IF i = "p" THEN r.mv ELSE NoObj]
          /\ last = [op |-> "PairValue", obj |-> "p", text |-> <<>>, chk |-> NullChecker,
                     ret |-> "ok", site |-> "default", out |-> <<>>,
                     pre |-> [i \in Handles |-> <<NoValue, NoValue>>]]
       \/ \E x \in SemVals(tparam[1]), y \in SemVals(tparam[2]) :
          /\ LET r == PairSet(EmptyHeap, tparam[1], tparam[2], x, y) IN
               /\ heap = r.heap
               /\ objs = [i \in Handles |-> IF i = "p" THEN r.mv ELSE NoObj]
          /\ last = [op |-> "PairValue", obj |-> "p", text |-> <<>>, chk |-> NullChecker,
                     ret |-> "ok", site |-> "import", out |-> <<>>,
                     pre |-> [i \in Handles |-> <<NoValue, NoValue>>]]

Set(i, x, y) ==
    /\ CanCall
    /\ objs[i].live
    /\ LET r == PairSet(heap, A, B, x, y)
           os == [objs EXCEPT ![i] = r.mv]
       IN /\ objs' = os
          /\ heap' = Release(r.heap, os)
    /\ last' = Call("Set", i, <<>>, NullChecker, "ok", "done", <<>>)
    /\ copied' = Touch(i)
    /\ UNCHANGED <<mob, mcall, past, tparam, crashed, made>>

DeserializeFromString(i, text, checker) ==
    /\ CanCall
    /\ objs[i].live
    /\ LET d == PairDeserialize(text, checker, A, B)
           r == Install(heap, objs[i], d)
           os == [objs EXCEPT ![i] = r.mv]
       IN
       /\ objs' = os
       /\ heap' = Release(r.heap, os)
       /\ crashed' = (d.ret = "crash")
       /\ last' = Call("DeserializeFromString", i, text, checker, d.ret, d.site, <<>>)
    /\ copied' = Touch(i)
    /\ UNCHANGED <<mob, mcall, past, tparam, made>>

SerializeToString(i, checker) ==
    /\ CanCall
    /\ objs[i].live
    /\ LET r == PairSerialize(heap, objs[i]) IN
       /\ crashed' = (r.ret = "crash")
       /\ last' = Call("SerializeToString", i, <<>>, checker, r.ret, "done", r.out)
    /\ UNCHANGED <<mob, mcall, past, tparam, objs, heap, copied, made>>

\* c = p.Copy(): handle j takes the copy of handle i's PairValue.
Copy(i, j) ==
    /\ CanCall
    /\ objs[i].live
    /\ i # j
    /\ LET r == PairCopy(heap, objs[i], A, B)
           os == [objs EXCEPT ![j] = r.mv]
       IN /\ IF r.ret = "crash"
             THEN UNCHANGED <<objs, heap>>
             ELSE /\ objs' = os
                  /\ heap' = Release(r.heap, os)
          /\ crashed' = (r.ret = "crash")
          /\ last' = Call("Copy", i, <<>>, NullChecker, r.ret, "done", <<>>)
          /\ copied' = IF r.ret = "crash" THEN copied
                        ELSE [valid |-> TRUE, src |-> i, dst |-> j,
                              val |-> PairGet(heap, objs[i]), touched |-> {}]
    /\ UNCHANGED <<mob, mcall, past, tparam, made>>

\* The statement that made the call ends; its result is dropped.
Return ==
    /\ ~crashed
    /\ last # Idle
    /\ last' = Idle
    /\ UNCHANGED <<mob, mcall, past, tparam, objs, heap, crashed, copied, made>>

\* The text interface of one PairValue.
Init == InitPair

Next ==
    \/ \E x \in SemVals(A), y \in SemVals(B) : Set("p", x, y)
    \/ \E text \in TextInputs, checker \in CheckerInputs :
          DeserializeFromString("p", text, checker)
    \/ SerializeToString("p", ProperChecker)
    \/ Return

Spec == Init /\ [][Next]_vars

\* Two handles: a PairValue and the copies made of it.  Set is handed the
\* semantic values whose text holds no whitespace; DeserializeFromString is
\* handed the texts SerializeToString makes of them and the texts of at most
\* one character, with the registered checker or with one that is no
\* PairChecker.
ShareVals(cls) == {x \in SemVals(cls) : ~HasSpace(x.str)}

ShareTexts ==
    TextsUpTo(1) \cup {SerializedPair(x, y) : x \in ShareVals(A), y \in ShareVals(B)}

ShareCheckers == {ProperChecker, OtherChecker}

NextShare ==
    \/ \E i \in Handles, x \in ShareVals(A), y \in ShareVals(B) : Set(i, x, y)
    \/ \E i \in Handles, text \in ShareTexts, checker \in ShareCheckers :
          DeserializeFromString(i, text, checker)
    \/ \E i \in Handles, j \in Handles : Copy(i, j)
    \/ \E i \in Handles : SerializeToString(i, ProperChecker)
    \/ Return

SpecShare == Init /\ [][NextShare]_vars

\* The checkers made so far, at most MaxMade of them.
MakePairCheckerCall(a, b) ==
    /\ Len(made) < MaxMade
    /\ made' = Append(made, [chk |-> MakePairChecker(a, b), name |-> PairName(a, b)])
    /\ UNCHANGED <<mob, mcall, past, tparam, objs, heap, last, crashed, copied>>

NextName == \E a \in Classes, b \in Classes : MakePairCheckerCall(a, b)

SpecName == InitPair /\ [][NextName]_vars

\* ------------------------------------------ HierarchicalMobilityModel use
\* A HierarchicalMobilityModel after its constructor; the leaf models it can
\* be composed of stand at any positions.
InitHierarchical ==
    /\ NoPair
    /\ crashed = FALSE
    /\ mob \in {NewHierarchical(pos) : pos \in [Models -> Vectors]}
    /\ mcall = MIdle
    /\ past = {}

pairVars == <<tparam, objs, heap, last, copied, made>>

\* The coordinates followed: those the positions handed in and the sums and
\* differences of two of them span.
InSpan(v) == \A c \in {v.x, v.y, v.z} : c >= -MaxCoord /\ c <= 2 * MaxCoord

\* A call ends the process when it dereferences a null Ptr.
Finish(op, model, position, stream, r) ==
    /\ \A m \in Models : InSpan(r.w.pos[m])
    /\ mob' = r.w
    /\ mcall' = MCall(op, model, position, stream, r)
    /\ crashed' = (r.ret = "crash")
    /\ past' = past \cup ({r.w.m_child, r.w.m_parent} \ {NoModel})
    /\ UNCHANGED pairVars

SetChildCall(model) ==
    /\ MCanCall
    /\ Finish("SetChild", model, ZeroVector, 0, SetChild(mob, model))

SetParentCall(model) ==
    /\ MCanCall
    /\ Finish("SetParent", model, ZeroVector, 0, SetParent(mob, model))

GetPositionCall ==
    /\ MCanCall
    /\ Finish("GetPosition", NoModel, ZeroVector, 0, DoGetPosition(mob))

SetPositionCall(position) ==
    /\ MCanCall
    /\ Finish("SetPosition", NoModel, position, 0, DoSetPosition(mob, position))

GetVelocityCall ==
    /\ MCanCall
    /\ Finish("GetVelocity", NoModel, ZeroVector, 0, DoGetVelocity(mob))

InitializeCall ==
    /\ MCanCall
    /\ Finish("Initialize", NoModel, ZeroVector, 0, DoInitialize(mob))

AssignStreamsCall(stream) ==
    /\ MCanCall
    /\ Finish("AssignStreams", NoModel, ZeroVector, stream, DoAssignStreams(mob, stream))

\* Leaf model m changes course.
CourseChangeCall(m) ==
    /\ MCanCall
    /\ Finish("CourseChange", m, ZeroVector, 0, CourseChange(mob, m))

MReturn ==
    /\ ~crashed
    /\ mcall # MIdle
    /\ mcall' = MIdle
    /\ UNCHANGED <<mob, crashed, past>>
    /\ UNCHANGED pairVars

\* Composition: the hierarchical model is composed and re-composed among
\* leaf models standing anywhere, and asked for its position.
NextCompose ==
    \/ \E model \in Models \cup {NoModel} : SetChildCall(model)
    \/ \E model \in Models \cup {NoModel} : SetParentCall(model)
    \/ GetPositionCall
    \/ MReturn

SpecCompose == InitHierarchical /\ [][NextCompose]_vars

\* Subscription: the hierarchical model is composed and re-composed by
\* SetChild(model) with a model and SetParent(model) with a model or none, and
\* the leaf models change course.
InitSubscribe ==
    /\ NoPair
    /\ crashed = FALSE
    /\ NoMobility

NextSubscribe ==
    \/ \E model \in Models : SetChildCall(model)
    \/ \E model \in Models \cup {NoModel} : SetParentCall(model)
    \/ \E m \in Models : CourseChangeCall(m)
    \/ MReturn

SpecSubscribe == InitSubscribe /\ [][NextSubscribe]_vars

\* Operation: the hierarchical model is given a child, a parent, both or
\* neither, once, and is then operated.
NextOperate ==
    \/ \E model \in Models : mob.m_child = NoModel /\ SetChildCall(model)
    \/ \E model \in Models : mob.m_parent = NoModel /\ SetParentCall(model)
    \/ GetPositionCall
    \/ \E position \in Vectors : SetPositionCall(position)
    \/ GetVelocityCall
    \/ InitializeCall
    \/ \E stream \in 0..MaxStream : AssignStreamsCall(stream)
    \/ MReturn

SpecOperate == InitSubscribe /\ [][NextOperate]_vars

\* ----------------------------------------------------------------- claims
Deserialized == last.op = "DeserializeFromString"

\* The components of the handle the last call was made on, as they are now.
Now == Content(heap, objs[last.obj])

\* The components of that handle as the call found them.
Before == last.pre[last.obj]

Unchanged == Now = Before /\ PairGet(heap, objs[last.obj]) = <<Sem(Before[1]), Sem(Before[2])>>

\* The strings the two CreateValidValue calls of the last call were given.
FirstArg == Extract(NewStream(last.text), last.text)

SecondArg == Extract(FirstArg.iss, FirstArg.value)

CheckersSet == IsPairChecker(last.chk) /\ last.chk.first # "null" /\ last.chk.second # "null"

\* C1: a DeserializeFromString call that returns false, whatever the cause (no
\* pair checker, a rejected first or second token, a type mismatch on either
\* component), leaves both components, and so Get(), as they were before the
\* call.
C1_FailureAtomicity == (Deserialized /\ last.ret = "false") => Unchanged

\* A call that failed on its second token after its first token was accepted
\* as a value other than the one held.
C1_Witness ==
    /\ Deserialized /\ last.ret = "false"
    /\ last.site \in {"second", "secondattr"}
    /\ CreateValidValue(last.chk.first, FirstArg.value) # Before[1]
    /\ Unchanged

\* C2: DeserializeFromString on a text of fewer than two whitespace-delimited
\* tokens returns false and leaves Get() unchanged, for every pair of
\* component checkers.
C2_FewTokensFail ==
    (Deserialized /\ CheckersSet /\ Len(Tokens(last.text)) < 2)
        => (last.ret = "false" /\ Unchanged)

\* C4: DeserializeFromString with a PairChecker whose component checkers were
\* never set returns false, leaves the value unchanged and does not crash.
C4_UnsetCheckersFail ==
    (Deserialized /\ last.chk = MakePairChecker(A, B))
        => (last.ret = "false" /\ ~crashed /\ Unchanged)

\* The serialized form of semantic value x of class cls.
SerOf(cls, x) == ComponentSerialize(CreateFrom(cls, x))

FreshDefault == Before = <<CreateDefault(A), CreateDefault(B)>>

RoundTrips(x, y) ==
    (Deserialized /\ last.chk = ProperChecker /\ last.text = SerializedPair(x, y))
        => (last.ret = "true" /\ PairGet(heap, objs[last.obj]) = <<x, y>>)

\* C3 as stated: for every semantic pair (x, y) whose serialized forms hold no
\* whitespace, deserializing SerializeToString's text for (x, y) into a fresh
\* default PairValue with the same checker returns true and Get() = (x, y).
C3_RoundTrip ==
    \A x \in SemVals(A), y \in SemVals(B) :
        (Deserialized /\ FreshDefault /\ ~HasSpace(SerOf(A, x)) /\ ~HasSpace(SerOf(B, y)))
            => RoundTrips(x, y)

\* C3 amended: the same for every semantic pair whose two serialized forms are
\* non-empty and hold no whitespace, into a fresh PairValue or any other.
C3_RoundTripNonEmpty ==
    \A x \in SemVals(A), y \in SemVals(B) :
        (/\ ~HasSpace(SerOf(A, x)) /\ ~HasSpace(SerOf(B, y))
         /\ Len(SerOf(A, x)) > 0 /\ Len(SerOf(B, y)) > 0)
            => RoundTrips(x, y)

\* The text of a pair of two different non-empty forms read into a fresh
\* default PairValue.
C3_Witness ==
    /\ Deserialized /\ last.chk = ProperChecker /\ FreshDefault
    /\ \E x \in SemVals(A), y \in SemVals(B) :
          /\ last.text = SerializedPair(x, y)
          /\ Len(Tokens(last.text)) = 2
          /\ SerOf(A, x) # SerOf(B, y)
          /\ PairGet(heap, objs[last.obj]) = <<x, y>>
          /\ Now # Before

\* The values the two component checkers make of the strings they were given.
FirstMade == CreateValidValue(last.chk.first, FirstArg.value)

SecondMade == CreateValidValue(last.chk.second, SecondArg.value)

\* C5 as stated: a token its checker accepts as a value whose class is not
\* exactly A (first) or B (second) makes DeserializeFromString return false;
\* true is returned only when both values have exactly the classes A and B.
C5_ExactType ==
    (Deserialized /\ CheckersSet) =>
        /\ (FirstMade # NoValue /\ FirstMade.cls # A) => last.ret = "false"
        /\ (SecondMade # NoValue /\ SecondMade.cls # B) => last.ret = "false"
        /\ last.ret = "true" => (Now[1].cls = A /\ Now[2].cls = B)

\* C9: SerializeToString returns the first component's text, one space, the
\* second component's text, and nothing else; with the two components swapped
\* it returns the two texts in the other order.
C9_SerializeFormat ==
    last.op = "SerializeToString" =>
        LET s1 == ComponentSerialize(Now[1])
            s2 == ComponentSerialize(Now[2])
            sw == NewPair(EmptyHeap, Now[2], Now[1])
            swapped == PairSerialize(sw.heap, sw.mv).out
            Shape(out, t1, t2) ==
                /\ Len(out) = Len(t1) + 1 + Len(t2)
                /\ SubSeq(out, 1, Len(t1)) = t1
                /\ out[Len(t1) + 1] = " "
                /\ SubSeq(out, Len(t1) + 2, Len(out)) = t2
        IN /\ last.ret = "ok"
           /\ Shape(last.out, s1, s2)
           /\ Shape(swapped, s2, s1)

\* A pair of two different tokens serialized.
C9_Witness ==
    /\ last.op = "SerializeToString"
    /\ ComponentSerialize(Now[1]) # ComponentSerialize(Now[2])
    /\ Tokens(last.out) = <<ComponentSerialize(Now[1]), ComponentSerialize(Now[2])>>

Refs(i) == {objs[i].first, objs[i].second}

\* C6: after c = p.Copy(), whatever Set and DeserializeFromString calls are
\* made on one of the two PairValues, Get() of the other one is still the pair
\* held when the copy was made; the two share no component.
C6_CopyIndependent ==
    /\ copied.valid =>
          \A h \in {copied.src, copied.dst} \ copied.touched :
              PairGet(heap, objs[h]) = copied.val
    /\ \A i \in Handles, j \in Handles :
          (i # j /\ objs[i].live /\ objs[j].live) => Refs(i) \cap Refs(j) = {}

\* The original was given another pair after the copy was made, by a
\* successful DeserializeFromString; the copy still holds the copied pair.
C6_Witness ==
    /\ copied.valid /\ copied.touched = {copied.src}
    /\ last.op = "DeserializeFromString" /\ last.ret = "true"
    /\ PairGet(heap, objs[copied.src]) # copied.val
    /\ PairGet(heap, objs[copied.dst]) = copied.val

\* C7: every PairValue made by a constructor has both components present, and
\* keeps them through every Set, Copy and DeserializeFromString, successful or
\* not; Copy and SerializeToString never meet an absent component.
C7_BothPresent ==
    /\ \A i \in Handles :
          objs[i].live =>
              /\ objs[i].first # 0 /\ heap[objs[i].first] # FreeCell
              /\ objs[i].second # 0 /\ heap[objs[i].second] # FreeCell
    /\ last.op \in {"Copy", "SerializeToString"} => last.ret = "ok"

\* A copy that went through a failed DeserializeFromString.
C7_Witness ==
    /\ last.op = "DeserializeFromString" /\ last.ret = "false" /\ last.obj = "c"
    /\ objs["p"].live /\ objs["c"].live
    /\ objs["c"].first # 0 /\ objs["c"].second # 0
    /\ Content(heap, objs["p"]) # Content(heap, objs["c"])

\* The components Copy() found in its source, and those of the copy it made.
CopySource == last.pre[last.obj]

CopyResult == Content(heap, objs[copied.dst])

CopyIsFresh == Refs(copied.dst) \cap Refs(last.obj) = {}

\* name, calls for two different ordered combinations give different names.
C10_NameUnique ==
    \A i \in 1..Len(made), j \in 1..Len(made) :
        (made[i].chk.A = made[j].chk.A /\ made[i].chk.B = made[j].chk.B)
            <=> made[i].name = made[j].name

\* The same combination made twice, and the swapped combination.
C10_Witness ==
    /\ Len(made) = 3
    /\ made[1].chk.A # made[1].chk.B
    /\ made[2].chk = made[1].chk /\ made[2].name = made[1].name
    /\ made[3].chk.A = made[1].chk.B /\ made[3].chk.B = made[1].chk.A
    /\ made[3].name # made[1].name

\* ------------------------------------------- HierarchicalMobilityModel claims
\* A SetChild(model) with a model, or a SetParent(model), that found a child set.
Recomposed ==
    /\ mcall.had
    /\ \/ mcall.op = "SetChild" /\ mcall.model # NoModel
       \/ mcall.op = "SetParent"

\* C11: when a child is already set, SetChild(newChild) and
\* SetParent(newParent), newParent absent or not, each return and leave
\* GetPosition() equal to what it returned just before the call: the parent's
\* position plus the child's, or the child's own when there is no parent.
C11_PositionKept ==
    Recomposed =>
        /\ mcall.ret = "ok"
        /\ DoGetPosition(mob).ret = "ok"
        /\ DoGetPosition(mob).val = mcall.was
        /\ DoGetPosition(mob).val =
               IF mob.m_parent = NoModel THEN mob.pos[mob.m_child]
               ELSE Vector(mob.pos[mob.m_parent].x + mob.pos[mob.m_child].x,
                           mob.pos[mob.m_parent].y + mob.pos[mob.m_child].y,
                           mob.pos[mob.m_parent].z + mob.pos[mob.m_child].z)

\* One of the five operations was called on a model with a child and no parent.
OperatedWithoutParent ==
    /\ mcall.op \in {"GetPosition", "SetPosition", "GetVelocity", "Initialize",
                     "AssignStreams"}
    /\ mob.m_child # NoModel
    /\ mob.m_parent = NoModel

\* C12: with a child set and no parent, DoGetPosition, DoSetPosition,
\* DoGetVelocity, DoInitialize and DoAssignStreams each complete without
\* dereferencing the absent parent, and DoAssignStreams returns the number of
\* streams the child allocated.
C12_NoParentIsValid ==
    OperatedWithoutParent =>
        /\ mcall.ret = "ok"
        /\ mcall.op = "AssignStreams" => mcall.num = LeafStreams(mob.m_child)

\* The callbacks a role's model has in the CourseChange list of model m: one
\* when m is the model in that role, none otherwise.
Subscribed(m, role) == IF role # NoModel /\ m = role THEN 1 ELSE 0

\* A model that was child or parent and is in neither role now.
Replaced(m) == m \in past /\ m \notin {mob.m_child, mob.m_parent}

\* C13: after every sequence of SetChild(model) and SetParent(model or none)
\* calls, ChildChanged is connected once to the CourseChange source of the
\* current child and to that of no other model, ParentChanged once to that of
\* the current parent, when there is one, and to no other; a course change
\* of a model invokes ChildChanged only when it is the current child and
\* ParentChanged only when it is the current parent, so that a replaced child
\* or parent notifies nothing.
C13_Subscriptions ==
    /\ \A m \in Models : mob.childCb[m] = Subscribed(m, mob.m_child)
    /\ \A m \in Models : mob.parentCb[m] = Subscribed(m, mob.m_parent)
    /\ mcall.op = "CourseChange" =>
          /\ mcall.child = Subscribed(mcall.model, mob.m_child)
          /\ mcall.parent = Subscribed(mcall.model, mob.m_parent)
          /\ Replaced(mcall.model) => mcall.child + mcall.parent = 0

\* A replaced child changes course while another child and a parent are set.
C13_Witness ==
    /\ mcall.op = "CourseChange"
    /\ Replaced(mcall.model)
    /\ mob.m_child # NoModel
    /\ mob.m_parent # NoModel
    /\ mob.childCb[mob.m_child] = 1
    /\ mob.parentCb[mob.m_parent] = 1
    /\ mcall.child + mcall.parent = 0
====
